---- MODULE Spec2Model ----
(***************************************************************************)
(* Model of github_repo_creator.py: a batch script that, for NUM_REPOS     *)
(* repository indices, creates a remote repository with the gh CLI, clones *)
(* it into a temporary directory, writes index.html, commits and pushes it *)
(* with git, and asks the gh API to enable GitHub Pages.                   *)
(*                                                                         *)
(* Text is modelled as a sequence of chunks (each chunk a TLA+ string):    *)
(* concatenation is \o, an f-string is the concatenation of its literal    *)
(* chunks and its formatted values, `x in s` is a contiguous-subsequence   *)
(* test.  An optional value (Python None or a value) is a sequence of      *)
(* length 0 or 1.                                                          *)
(***************************************************************************)
EXTENDS Integers, Sequences, FiniteSets, TLC

VARIABLES
    USERNAME,   \* module global, line 11: os.getenv("GITHUB_USERNAME")
    TOKEN,      \* module global, line 12: os.getenv("GITHUB_TOKEN")
    environ,    \* os.environ of the process
    pc,         \* position of the single thread of control
    i,          \* loop index of the for loop at line 202
    tmpdir,     \* name bound by the with statement at line 135, None outside it
    fs,         \* the part of the file system below the temporary directories
    running,    \* the external process in flight, None when there is none
    calls,      \* every subprocess.run invocation made so far, in order
    log,        \* every print() made so far, in order (standard output)
    returns,    \* every completed subprocess_run_safe call so far, in order
    exc         \* the uncaught exception that ended the process, None if none

vars == <<USERNAME, TOKEN, environ, pc, i, tmpdir, fs, running, calls, log, returns, exc>>

\* ------------------------------------------------------------------ bounds
MaxExitCode == 2

\* ------------------------------------------------------- program constants
NUM_REPOS == 2

\* ---------------------------------------------------------- optional values
None == <<>>
Some(x) == <<x>>
Get(o) == o[1]

\* ------------------------------------------------------------ text helpers
Whitespace == {" ", "\n"}

RECURSIVE LStrip(_)
LStrip(s) ==
    IF s # <<>> /\ Head(s) \in Whitespace THEN LStrip(Tail(s)) ELSE s

RECURSIVE RStrip(_)
RStrip(s) ==
    IF s # <<>> /\ s[Len(s)] \in Whitespace
    THEN RStrip(SubSeq(s, 1, Len(s) - 1))
    ELSE s

\* str.strip()
Strip(s) == RStrip(LStrip(s))

\* str.replace(old, new) for single-chunk old and new
Replace(s, old, new) == [k \in 1..Len(s) |-> IF s[k] = old THEN new ELSE s[k]]

\* `needle in hay` for text
Contains(hay, needle) ==
    \E k \in 0..(Len(hay) - Len(needle)) :
        SubSeq(hay, k + 1, k + Len(needle)) = needle

\* sep.join(parts), parts a sequence of texts
RECURSIVE Join(_, _)
Join(sep, parts) ==
    IF parts = <<>> THEN <<>>
    ELSE IF Len(parts) = 1 THEN parts[1]
    ELSE parts[1] \o sep \o Join(sep, Tail(parts))

\* s * n for a one-chunk text
RECURSIVE Repeat(_, _)
Repeat(s, n) == IF n <= 0 THEN <<>> ELSE s \o Repeat(s, n - 1)

DigitChunk == <<"0", "1", "2", "3", "4", "5", "6", "7", "8", "9">>

RECURSIVE NatToStr(_)
NatToStr(n) ==
    IF n < 10 THEN <<DigitChunk[n + 1]>>
    ELSE NatToStr(n \div 10) \o <<DigitChunk[(n % 10) + 1]>>

\* str(n) / {n} in an f-string, n an int
IntToStr(n) == IF n < 0 THEN <<"-">> \o NatToStr(-n) ELSE NatToStr(n)

\* {v} in an f-string, v an optional text (None formats as "None")
FormatOpt(v) == IF v = None THEN <<"None">> ELSE Get(v)

\* truth value of an optional text: None and "" are falsy
Truthy(v) == v # None /\ Get(v) # <<>>

\* -------------------------------------------------------------- environment
\* d overlaid with k -> v (env[k] = v on a dict copy)
Overlay(d, k, v) == [n \in (DOMAIN d) \cup {k} |-> IF n = k THEN v ELSE d[n]]

BaseEnviron == [n \in {"PATH"} |-> <<"/usr/bin">>]

\* load_dotenv() followed by os.getenv: the variables the process ends up with
EnvironOf(u, t, pre) ==
    LET e0 == IF pre = None THEN BaseEnviron ELSE Overlay(BaseEnviron, "GH_TOKEN", Get(pre))
        e1 == IF u = None THEN e0 ELSE Overlay(e0, "GITHUB_USERNAME", Get(u))
    IN  IF t = None THEN e1 ELSE Overlay(e1, "GITHUB_TOKEN", Get(t))

\* ------------------------------------------------- outcomes of external calls
NonZeroCodes == {-9} \cup (1..MaxExitCode)

StdoutTexts ==
    { <<>>,
      <<"\n">>,
      <<"Cloning into 'repo'...", "\n", "done.", "\n">> }

StderrTexts ==
    { <<>>,
      <<"fatal: Authentication failed", "\n">>,
      <<"sh: 1: ", "gh: not found", "\n">>,
      <<"bash: ", "gh: command not found", "\n">>,
      <<"\n", "gh: not found", " ", "gh: command not found">> }

\* what subprocess.run can do once the process has been started
ExitOutcomes ==
    [kind : {"exit"}, code : {0} \cup NonZeroCodes,
     stdout : StdoutTexts, stderr : StderrTexts]

\* subprocess.run raising FileNotFoundError: no process was started
NotFoundOutcome == [kind |-> "notfound", code |-> 0, stdout |-> <<>>, stderr |-> <<>>]

\* ------------------------------------------------ subprocess_run_safe (16-58)
RunnerParams == {"command", "cwd", "env"}

\* a call binds only if every keyword it passes is a parameter (else TypeError)
Binds(kwargs) == kwargs \subseteq RunnerParams

\* faulty variant of RunnerEnv: env.setdefault('GH_TOKEN', TOKEN), which
\* keeps a GH_TOKEN the environment already holds
RunnerEnv_SetDefault(env) ==
    LET e == IF env = None THEN environ ELSE Get(env)
    IN  IF Truthy(TOKEN) /\ "GH_TOKEN" \notin DOMAIN e
        THEN Overlay(e, "GH_TOKEN", Get(TOKEN))
        ELSE e

\* lines 23-26: the environment handed to subprocess.run
RunnerEnv(env) ==
    LET e == IF env = None THEN environ ELSE Get(env)
    IN  IF Truthy(TOKEN) THEN Overlay(e, "GH_TOKEN", Get(TOKEN)) ELSE e

\* the subprocess.run invocation of lines 29-37 (envarg: the env argument
\* subprocess_run_safe was given; env: the env it hands to subprocess.run)
Invocation(step, command, cwd, env) ==
    [attempt |-> i, step |-> step, command |-> command, cwd |-> cwd,
     envarg |-> env, env |-> RunnerEnv(env)]

\* lines 40-47: the lines printed for a zero exit status
SuccessLines(o) ==
    LET output == o.stdout \o o.stderr
        output_to_print == Replace(Strip(output), "\n", " ")
    IN  << <<"    [OUTPUT] Command successful.">> >>
        \o (IF output_to_print # <<>>
            THEN << <<"    [OUTPUT] ">> \o output_to_print >>
            ELSE <<>>)

\* faulty variant of ErrorLine: the argument list is printed unjoined
ErrorLine_Unjoined(command, o) ==
    <<"    [ERROR] Command failed with exit code ">> \o IntToStr(o.code)
        \o <<": ">> \o Join(<<>>, command)

\* line 50
ErrorLine(command, o) ==
    <<"    [ERROR] Command failed with exit code ">> \o IntToStr(o.code)
        \o <<": ">> \o Join(<<" ">>, command)

\* faulty variant of GhMissing: only the first of the two substrings is tested
GhMissing_FirstOnly(stderr) == Contains(stderr, <<"gh: not found">>)

\* line 53
GhMissing(stderr) ==
    Contains(stderr, <<"gh: not found">>) \/ Contains(stderr, <<"gh: command not found">>)

FatalGhLine == <<"FATAL ERROR: GitHub CLI ('gh') is not installed or not in your PATH.">>

\* lines 49-55: the lines printed for CalledProcessError
FailureLines(command, o) ==
    << ErrorLine(command, o), <<"    [STDERR] ">> \o Strip(o.stderr) >>
        \o (IF GhMissing(o.stderr) THEN <<FatalGhLine>> ELSE <<>>)

\* lines 56-58
NotFoundLines ==
    << <<"FATAL ERROR: ", "Command executable not found. Is 'git' or 'gh' installed?">> >>

\* everything subprocess_run_safe prints for one outcome
RunnerLines(command, o) ==
    IF o.kind = "notfound" THEN NotFoundLines
    ELSE IF o.code = 0 THEN SuccessLines(o)
    ELSE FailureLines(command, o)

\* faulty variant of RunnerReturn: the except FileNotFoundError branch falls
\* through to the `return True` of the success path
RunnerReturn_NotFoundTrue(o) == o.kind = "notfound" \/ o.code = 0

\* the value subprocess_run_safe returns (lines 48, 55, 58)
RunnerReturn(o) == o.kind = "exit" /\ o.code = 0

\* record of one completed subprocess_run_safe call
Completed(inv, o) ==
    [inv |-> inv, outcome |-> o, ret |-> RunnerReturn(o),
     lines |-> RunnerLines(inv.command, o)]

\* ---------------------------------------------------- get_html_content (60-122)
HtmlHead == "<!DOCTYPE html> <html lang=en> <head> ... <title>"
HtmlStyle == " - GitHub Page</title> <style> ... </style> </head> <body> ... <h2>"
HtmlBadge == "</h2> <span class=badge>Created by "
HtmlTail == "</span> </div> </body> </html>"

\* faulty variant of get_html_content: the badge shows the repository name
\* where the owner belongs
get_html_content_NoOwner(repo_name) ==
    LET html_template ==
            <<"\n", HtmlHead>> \o repo_name \o <<HtmlStyle>> \o repo_name
                \o <<HtmlBadge>> \o repo_name \o <<HtmlTail, "\n", " ">>
    IN  Strip(html_template)

get_html_content(repo_name) ==
    LET html_template ==
            <<"\n", HtmlHead>> \o repo_name \o <<HtmlStyle>> \o repo_name
                \o <<HtmlBadge>> \o FormatOpt(USERNAME) \o <<HtmlTail, "\n", " ">>
    IN  Strip(html_template)

\* ------------------------------------------- create_and_setup_repo (124-183)
Steps ==
    <<"create", "clone", "config_name", "config_email", "add", "commit", "push", "pages">>

StepSet == {Steps[k] : k \in 1..Len(Steps)}

\* line 203
RepoName(n) == <<"repo_">> \o IntToStr(n)

\* line 136 and line 151: os.path.join
PathJoin(a, b) == a \o <<"/">> \o b

RepoDir(t, repo_name) == PathJoin(t, repo_name)

\* line 140
AuthUrl(repo_name, username, token) ==
    <<"https://oauth2:">> \o FormatOpt(token) \o <<"@github.com/">>
        \o FormatOpt(username) \o <<"/">> \o repo_name \o <<".git">>

\* line 172
PagesEndpoint(repo_name, username) ==
    <<"repos/">> \o FormatOpt(username) \o <<"/">> \o repo_name \o <<"/pages">>

\* line 175
Payload == <<"{\"source\": {\"branch\": \"main\", \"path\": \"/\"}}">>

\* the argument list of each call site (lines 130, 144, 160-163, 166, 178)
Command(step, repo_name, username, token, t) ==
    CASE step = "create" ->
            << <<"gh">>, <<"repo">>, <<"create">>,
               FormatOpt(username) \o <<"/">> \o repo_name,
               <<"--public">>, <<"--clone=false">> >>
      [] step = "clone" ->
            << <<"git">>, <<"clone">>, AuthUrl(repo_name, username, token),
               RepoDir(Get(t), repo_name) >>
      [] step = "config_name" ->
            << <<"git">>, <<"config">>, <<"user.name">>, <<"GitHub Automation Script">> >>
      [] step = "config_email" ->
            << <<"git">>, <<"config">>, <<"user.email">>, <<"automation@example.com">> >>
      [] step = "add" -> << <<"git">>, <<"add">>, <<".">> >>
      [] step = "commit" ->
            << <<"git">>, <<"commit">>, <<"-m">>,
               <<"Initial commit: Add index.html for GitHub Pages">> >>
      [] step = "push" -> << <<"git">>, <<"push">>, <<"origin">>, <<"main">> >>
      [] step = "pages" ->
            << <<"gh">>, <<"api">>, <<"--method">>, <<"POST">>,
               PagesEndpoint(repo_name, username), <<"--input">>, <<"-">> >>

\* the keyword arguments each call site passes to subprocess_run_safe
Kwargs(step) ==
    CASE step \in {"create", "clone"} -> {}
      [] step \in {"config_name", "config_email", "add", "commit", "push"} -> {"cwd"}
      [] step = "pages" -> {"input"}

\* the cwd each call site passes
Cwd(step, repo_name, t) ==
    IF "cwd" \in Kwargs(step) THEN Some(RepoDir(Get(t), repo_name)) ELSE None

\* ------------------------------------------------------------- file system
TmpNames == { <<"/tmp/tmpa">>, <<"/tmp/tmpb">> }

Dir(path) == [path |-> path, kind |-> "dir", content |-> <<>>]
File(path, content) == [path |-> path, kind |-> "file", content |-> content]

IsPrefix(a, b) == Len(a) <= Len(b) /\ SubSeq(b, 1, Len(a)) = a

\* faulty variant of Cleanup: a directory made with mkdtemp() and never removed
Cleanup_Leak(f, t) == f

\* TemporaryDirectory.__exit__: the directory and everything below it is removed
Cleanup(f, t) == IF t = None THEN f ELSE {n \in f : ~IsPrefix(Get(t), n.path)}

\* open(path, "w") + write
WriteFile(f, path, content) == {n \in f : n.path # path} \cup {File(path, content)}

\* ------------------------------------------ the provisioner between two calls
Separator == Repeat(<<"-">>, 50)

\* faulty variant of FailureLine: every message was copied from the first one
\* and still says "create repository"
FailureLine_Copied(what, repo_name, tail) ==
    <<"--- FAILURE: Failed to ">> \o <<"create repository ">> \o repo_name \o tail

\* lines 131, 145, 167, 179
FailureLine(what, repo_name, tail) ==
    <<"--- FAILURE: Failed to ">> \o what \o repo_name \o tail

\* lines 182-183
SuccessReport(repo_name, username) ==
    << <<"4. Success! Deployment URL: ">> \o <<"https://">> \o FormatOpt(username)
           \o <<".github.io/">> \o repo_name,
       <<"--- Process finished for ">> \o repo_name \o <<" ---">> >>

\* control is at the call site `p`, nothing new printed
Goto(p) ==
    [pc |-> p, i |-> i, tmpdir |-> tmpdir, fs |-> fs, printed |-> <<>>, exc |-> None]

\* faulty variant of Return: the workspace is removed only where the with
\* block ends normally, so an early return leaves it behind
Return_KeepsWorkspace(printed) ==
    [pc |-> "loop", i |-> i + 1, tmpdir |-> None, fs |-> fs,
     printed |-> printed \o <<Separator>>, exc |-> None]

\* `return` from create_and_setup_repo, then line 206 and the next iteration;
\* leaving the with block on the way removes the temporary directory
Return(printed) ==
    [pc |-> "loop", i |-> i + 1, tmpdir |-> None, fs |-> Cleanup(fs, tmpdir),
     printed |-> printed \o <<Separator>>, exc |-> None]

\* faulty variant of Raise: the exception is swallowed by a broad except and
\* control falls through to the report of lines 182-183
Raise_Swallowed(name, printed) ==
    Return(printed \o SuccessReport(RepoName(i), USERNAME))

\* an uncaught exception: the with block is left, the process ends
Raise(name, printed) ==
    [pc |-> "crashed", i |-> i, tmpdir |-> None, fs |-> Cleanup(fs, tmpdir),
     printed |-> printed, exc |-> Some(name)]

\* faulty variant of OrReturn: the `return` is missing, so control falls
\* through to the next call
OrReturn_FallThrough(ok, next) == Goto(next)

\* faulty variant of OrReturn: a failed call is tried again
OrReturn_Retry(ok, next) == IF ok THEN Goto(next) ELSE Goto(pc)

\* lines 160-163: `if not subprocess_run_safe(...): return`
OrReturn(ok, next) == IF ok THEN Goto(next) ELSE Return(<<>>)

\* What create_and_setup_repo does after subprocess_run_safe returned `ok` at
\* call site `step`, up to the next call site or to the end of the attempt:
\* the set of possible continuations.
After(step, ok) ==
    LET repo_name == RepoName(i) IN
    CASE step = "create" /\ ok ->
            \* line 135: a fresh temporary directory; line 143
            { [Goto("clone") EXCEPT !.tmpdir = Some(t), !.fs = fs \cup {Dir(t)},
                   !.printed = << <<"2a. Cloning repository into isolated temporary directory...">> >>]
              : t \in {n \in TmpNames : Dir(n) \notin fs} }
      [] step = "create" /\ ~ok ->
            { Return(<< FailureLine(<<"create repository ">>, repo_name, <<". ---">>) >>) }
      [] step = "clone" /\ ok ->
            LET repo_dir == RepoDir(Get(tmpdir), repo_name)
                file_path == PathJoin(repo_dir, <<"index.html">>)
                cloned == fs \cup {Dir(repo_dir)}
                l2b == <<"2b. Generating and writing index.html...">>
                l2c == <<"2c. Committing and pushing index.html...">>
            IN  \* lines 149-156; open/write may raise OSError, which nothing catches
                { [Goto("config_name") EXCEPT
                       !.fs = WriteFile(cloned, file_path, get_html_content(repo_name)),
                       !.printed = <<l2b, l2c>>],
                  [Raise("OSError", <<l2b>>) EXCEPT !.fs = Cleanup(cloned, tmpdir)] }
      [] step = "clone" /\ ~ok ->
            { Return(<< FailureLine(<<"clone ">>, repo_name, <<". ---">>) >>) }
      [] step = "config_name" -> { OrReturn(ok, "config_email") }
      [] step = "config_email" -> { OrReturn(ok, "add") }
      [] step = "add" -> { OrReturn(ok, "commit") }
      [] step = "commit" -> { OrReturn(ok, "push") }
      [] step = "push" /\ ok ->
            \* the with block ends at line 168; line 171
            { [Goto("pages") EXCEPT !.tmpdir = None, !.fs = Cleanup(fs, tmpdir),
                   !.printed = << <<"3. Enabling GitHub Pages on 'main' branch...">> >>] }
      [] step = "push" /\ ~ok ->
            { Return(<< FailureLine(<<"push to ">>, repo_name,
                  <<". This is usually due to an invalid token or permissions. ---">>) >>) }
      [] step = "pages" /\ ok -> { Return(SuccessReport(repo_name, USERNAME)) }
      [] step = "pages" /\ ~ok ->
            { Return(<< FailureLine(<<"enable GitHub Pages for ">>, repo_name, <<". ---">>) >>) }

\* the program moves to continuation r, having printed `printed` before it
Resume(r, printed) ==
    /\ pc' = r.pc
    /\ i' = r.i
    /\ tmpdir' = r.tmpdir
    /\ fs' = r.fs
    /\ exc' = r.exc
    /\ log' = log \o printed \o r.printed

\* the subprocess.run invocation the call site at pc makes
CallAt(step) ==
    Invocation(step, Command(step, RepoName(i), USERNAME, TOKEN, tmpdir),
               Cwd(step, RepoName(i), tmpdir), None)

\* ------------------------------------------------------------------ actions
ConfigValues == {None, Some(<<>>)}
UserNames == {Some(<<"alice">>), Some(<<"bob">>)}
Tokens == {Some(<<"tok123">>)}
Inherited == {None, Some(<<"stale">>)}

InitCommon ==
    /\ USERNAME \in ConfigValues \cup UserNames
    /\ TOKEN \in ConfigValues \cup Tokens
    /\ \E pre \in Inherited : environ = EnvironOf(USERNAME, TOKEN, pre)
    /\ i = 0
    /\ tmpdir = None
    /\ fs = {}
    /\ running = None
    /\ calls = <<>>
    /\ log = <<>>
    /\ returns = <<>>
    /\ exc = None

Init == InitCommon /\ pc = "main"

Bang == <<"!!!!!!!!!!!!!!!!!!!!!!!!!!!!!!!!!!!!!!!!!!!!!!!!!!!!!!!!!!!!">>

\* faulty variant of MissingConfig: `is None` tests, which let "" through
MissingConfig_IsNone ==
    IF USERNAME = None THEN "username"
    ELSE IF TOKEN = None THEN "token"
    ELSE "none"

\* the test of lines 188 and 192
MissingConfig ==
    IF ~Truthy(USERNAME) THEN "username"
    ELSE IF ~Truthy(TOKEN) THEN "token"
    ELSE "none"

\* lines 187-200
Main ==
    /\ pc = "main"
    /\ IF MissingConfig = "username"
       THEN /\ log' = log \o << Bang,
                   <<"FATAL ERROR: ", "GITHUB_USERNAME", " not found. Set it in the .env file.">>,
                   Bang >>
            /\ pc' = "done"
       ELSE IF MissingConfig = "token"
       THEN /\ log' = log \o << Bang,
                   <<"FATAL ERROR: ", "GH_TOKEN", " not found. Set it in the .env file for portability.">>,
                   <<"             This token is required to create repositories.">>,
                   Bang >>
            /\ pc' = "done"
       ELSE /\ log' = log \o <<
                   <<"Starting GitHub CLI automation for user: ">> \o FormatOpt(USERNAME),
                   <<"Creating and setting up ">> \o IntToStr(NUM_REPOS) \o <<" repositories...">>,
                   Separator >>
            /\ pc' = "loop"
    /\ UNCHANGED <<USERNAME, TOKEN, environ, i, tmpdir, fs, running, calls, returns, exc>>

\* lines 202-204 and 128, or line 208 when the range is exhausted
ForLoop ==
    /\ pc = "loop"
    /\ IF i < NUM_REPOS
       THEN /\ log' = log \o <<
                   <<"--- Starting process for ">> \o RepoName(i) \o <<" (Index: ">>
                       \o IntToStr(i) \o <<") ---">>,
                   <<"1. Creating remote repository: ">> \o RepoName(i) \o <<"...">> >>
            /\ pc' = "create"
       ELSE /\ log' = log \o << <<"Automation complete.">> >>
            /\ pc' = "done"
    /\ UNCHANGED <<USERNAME, TOKEN, environ, i, tmpdir, fs, running, calls, returns, exc>>

\* a call site passes a keyword subprocess_run_safe does not take: TypeError
CallTypeError ==
    /\ pc \in StepSet
    /\ running = None
    /\ ~Binds(Kwargs(pc))
    /\ Resume(Raise("TypeError", <<>>), <<>>)
    /\ UNCHANGED <<USERNAME, TOKEN, environ, running, calls, returns>>

\* subprocess.run starts the external process and blocks
CallSpawn ==
    /\ pc \in StepSet
    /\ running = None
    /\ Binds(Kwargs(pc))
    /\ running' = Some(CallAt(pc))
    /\ calls' = Append(calls, CallAt(pc))
    /\ UNCHANGED <<USERNAME, TOKEN, environ, pc, i, tmpdir, fs, log, returns, exc>>

\* subprocess.run finds no executable: FileNotFoundError, caught at line 56
CallNotFound ==
    /\ pc \in StepSet
    /\ running = None
    /\ Binds(Kwargs(pc))
    /\ calls' = Append(calls, CallAt(pc))
    /\ returns' = Append(returns, Completed(CallAt(pc), NotFoundOutcome))
    /\ \E r \in After(pc, RunnerReturn(NotFoundOutcome)) :
           Resume(r, RunnerLines(CallAt(pc).command, NotFoundOutcome))
    /\ UNCHANGED <<USERNAME, TOKEN, environ, running>>

\* the outcomes the program's external tools are given in the whole-program runs
ProgramOutcomes ==
    {o \in ExitOutcomes :
        IF o.code = 0
        THEN o.stdout = <<"Cloning into 'repo'...", "\n", "done.", "\n">> /\ o.stderr = <<>>
        ELSE /\ o.stdout = <<>>
             /\ o.stderr \in { <<"fatal: Authentication failed", "\n">>,
                               <<"sh: 1: ", "gh: not found", "\n">>,
                               <<"bash: ", "gh: command not found", "\n">> } }

\* the external process exits; subprocess_run_safe logs and returns, and
\* create_and_setup_repo runs on to its next call site
ProcessExit ==
    /\ pc \in StepSet
    /\ running # None
    /\ \E o \in ProgramOutcomes :
          /\ returns' = Append(returns, Completed(Get(running), o))
          /\ \E r \in After(pc, RunnerReturn(o)) :
                 Resume(r, RunnerLines(Get(running).command, o))
    /\ running' = None
    /\ UNCHANGED <<USERNAME, TOKEN, environ, calls>>

Next == Main \/ ForLoop \/ CallTypeError \/ CallSpawn \/ CallNotFound \/ ProcessExit

Spec == Init /\ [][Next]_vars

\* ------------------------------------- subprocess_run_safe called on its own
\* One call of subprocess_run_safe with arguments drawn from bounded sets,
\* with and without a configured credential.
RunnerCommands ==
    { << <<"gh">> >>,
      << <<"git">>, <<"add">>, <<".">> >>,
      Command("create", RepoName(0), USERNAME, TOKEN, None),
      Command("clone", RepoName(0), USERNAME, TOKEN, Some(<<"/tmp/tmpa">>)) }

RunnerCwds == {None, Some(<<"/tmp/tmpa">>)}

RunnerEnvs ==
    {None, Some(BaseEnviron), Some(Overlay(BaseEnviron, "GH_TOKEN", <<"other">>))}

InitRunner == InitCommon /\ pc = "runner"

RunnerSpawn ==
    /\ pc = "runner"
    /\ running = None
    /\ \E command \in RunnerCommands, cwd \in RunnerCwds, env \in RunnerEnvs :
          /\ running' = Some(Invocation("runner", command, cwd, env))
          /\ calls' = Append(calls, Invocation("runner", command, cwd, env))
    /\ UNCHANGED <<USERNAME, TOKEN, environ, pc, i, tmpdir, fs, log, returns, exc>>

RunnerNotFound ==
    /\ pc = "runner"
    /\ running = None
    /\ \E command \in RunnerCommands, cwd \in RunnerCwds, env \in RunnerEnvs :
          /\ calls' = Append(calls, Invocation("runner", command, cwd, env))
          /\ returns' = Append(returns, Completed(Invocation("runner", command, cwd, env), NotFoundOutcome))
          /\ log' = log \o RunnerLines(command, NotFoundOutcome)
    /\ pc' = "returned"
    /\ UNCHANGED <<USERNAME, TOKEN, environ, i, tmpdir, fs, running, exc>>

RunnerExit ==
    /\ pc = "runner"
    /\ running # None
    /\ \E o \in ExitOutcomes :
          /\ returns' = Append(returns, Completed(Get(running), o))
          /\ log' = log \o RunnerLines(Get(running).command, o)
    /\ running' = None
    /\ pc' = "returned"
    /\ UNCHANGED <<USERNAME, TOKEN, environ, i, tmpdir, fs, calls, exc>>

NextRunner == RunnerSpawn \/ RunnerNotFound \/ RunnerExit

SpecRunner == InitRunner /\ [][NextRunner]_vars

\* ============================================================ properties
ConfigPresent == Truthy(USERNAME) /\ Truthy(TOKEN)

Ended == pc \in {"done", "crashed"}

\* the run was not cut short by an I/O error while writing index.html
NoWriteError == exc # Some("OSError")

CallsOf(n) == SelectSeq(calls, LAMBDA c : c.attempt = n)
ReturnsOf(n) == SelectSeq(returns, LAMBDA r : r.inv.attempt = n)
StepsOf(cs) == [k \in 1..Len(cs) |-> cs[k].step]

\* the indices for which create_and_setup_repo was entered, in order
Attempted ==
    LET first == SelectSeq(calls, LAMBDA c : c.step = "create")
    IN  [k \in 1..Len(first) |-> first[k].attempt]

\* attempt n has been started and is over
Concluded(n) == CallsOf(n) # <<>> /\ (i > n \/ Ended)

\* every subprocess_run_safe call of attempt n returned True
AllSucceeded(n) == \A k \in 1..Len(ReturnsOf(n)) : ReturnsOf(n)[k].ret

Indices == 0..(NUM_REPOS - 1)

\* C1: with owner identity and credential present, once the run is over the
\* Provisioner has been invoked exactly once for every index 0..N-1 in
\* ascending order, whatever the outcome of each attempt (a run ended by an
\* I/O error on index.html aside).
C1_EveryIndexAttempted ==
    (ConfigPresent /\ Ended /\ NoWriteError)
        => Attempted = [k \in 1..NUM_REPOS |-> k - 1]

\* C2: an attempt that is over and in which every external call succeeded
\* has issued exactly create, clone (URL with oauth2:<credential>@), the four
\* local git calls, push and the API call, in this order.
C2_FullCallSequence ==
    \A n \in Indices :
        (Concluded(n) /\ AllSucceeded(n) /\ NoWriteError)
            => /\ StepsOf(CallsOf(n)) = Steps
               /\ Contains(CallsOf(n)[2].command[3],
                           <<"oauth2:">> \o Get(TOKEN) \o <<"@github.com/">>)

\* the log has a line with the public URL of repository n
UrlLogged(n) ==
    \E k \in 1..Len(log) :
        Contains(log[k], <<"https://">> \o Get(USERNAME) \o <<".github.io/">>
                             \o <<"repo_", DigitChunk[n + 1]>>)

\* C3: when every external call of every attempt succeeded, the finished run
\* has logged the public URL of each of repo_0 .. repo_{N-1}.
C3_AllUrlsReported ==
    (ConfigPresent /\ Ended /\ NoWriteError
        /\ \A k \in 1..Len(returns) : returns[k].ret)
        => \A n \in Indices : UrlLogged(n)

\* the call sites inside the with block of lines 135-168
WithSteps == {"clone", "config_name", "config_email", "add", "commit", "push"}

\* nothing of attempt n's workspace is left: the file system is empty, or
\* all of it is the workspace of a later attempt that is still under way
WorkspaceGone(n) ==
    \/ fs = {}
    \/ /\ i > n /\ pc \in WithSteps /\ tmpdir # None
       /\ \A node \in fs :
             /\ IsPrefix(Get(tmpdir), node.path)
             /\ ~Contains(node.path, <<"repo_", DigitChunk[n + 1]>>)

\* C4: a failed external call is the last call issued for its repository,
\* and once the attempt is over its temporary workspace no longer exists.
C4_FailureAborts ==
    \A k \in 1..Len(returns) :
        ~returns[k].ret =>
            LET n == returns[k].inv.attempt
                cs == CallsOf(n)
            IN  /\ cs[Len(cs)] = returns[k].inv
                /\ \A j \in 1..(Len(cs) - 1) : cs[j].step # returns[k].inv.step
                /\ Concluded(n) => WorkspaceGone(n)

\* C4 witness: the commit of repo_0 failed after the workspace had been
\* populated, and the next attempt is already issuing calls.
C4_Witness ==
    /\ \E k \in 1..Len(returns) :
          /\ ~returns[k].ret
          /\ returns[k].inv.attempt = 0
          /\ returns[k].inv.step = "commit"
    /\ CallsOf(1) # <<>>
    /\ fs # {}

\* C5: no log line contains the credential.
C5_CredentialNeverLogged ==
    Truthy(TOKEN) => \A k \in 1..Len(log) : ~Contains(log[k], Get(TOKEN))

\* the log is one delimited fatal block: it opens and closes with the
\* delimiter line and has exactly one FATAL ERROR line, which names `what`
OneFatalBlock(what) ==
    /\ Len(log) >= 3
    /\ log[1] = Bang /\ log[Len(log)] = Bang
    /\ Cardinality({k \in 1..Len(log) : log[k] = Bang}) = 2
    /\ Cardinality({k \in 1..Len(log) : Contains(log[k], <<"FATAL ERROR: ">>)}) = 1
    /\ \E k \in 1..Len(log) :
          Contains(log[k], <<"FATAL ERROR: ">>) /\ Contains(log[k], <<what>>)

C7_CredentialInEnvironment ==
    \A k \in 1..Len(calls) :
        LET c == calls[k] IN
        /\ Truthy(TOKEN) =>
              /\ "GH_TOKEN" \in DOMAIN c.env
              /\ c.env["GH_TOKEN"] = Get(TOKEN)
        /\ (Truthy(TOKEN) /\ c.envarg = None) =>
              /\ DOMAIN c.env = (DOMAIN environ) \cup {"GH_TOKEN"}
              /\ \A n \in (DOMAIN environ) \ {"GH_TOKEN"} : c.env[n] = environ[n]
        /\ (~Truthy(TOKEN) /\ c.envarg = None) => c.env = environ

\* C7 witness: a credential is configured, the process environment already
\* holds another GH_TOKEN, and a call without env of its own was made.
C7_Witness ==
    /\ Truthy(TOKEN)
    /\ "GH_TOKEN" \in DOMAIN environ
    /\ environ["GH_TOKEN"] # Get(TOKEN)
    /\ \E k \in 1..Len(calls) :
          calls[k].envarg = None /\ calls[k].env["GH_TOKEN"] = Get(TOKEN)

\* decimal text of an exit code of one digit
Decimal(c) == IF c < 0 THEN <<"-", DigitChunk[1 - c]>> ELSE <<DigitChunk[c + 1]>>

\* number of chunks before the j-th part in a text that joins parts by one
\* separator chunk each
RECURSIVE Offset(_, _)
Offset(parts, j) ==
    IF j = 1 THEN 0 ELSE Offset(parts, j - 1) + Len(parts[j - 1]) + 1

\* t is the parts in order with exactly one " " between neighbours
IsSpaceJoined(t, parts) ==
    /\ Len(t) = Offset(parts, Len(parts)) + Len(parts[Len(parts)])
    /\ \A j \in 1..Len(parts) :
          /\ SubSeq(t, Offset(parts, j) + 1, Offset(parts, j) + Len(parts[j])) = parts[j]
          /\ j > 1 => t[Offset(parts, j)] = " "

HasSpaceJoined(line, parts) ==
    \E a \in 1..Len(line), b \in 1..Len(line) : IsSpaceJoined(SubSeq(line, a, b), parts)

NameOf(k) == <<"repo_", DigitChunk[k + 1]>>

CreateCalls == SelectSeq(calls, LAMBDA c : c.step = "create")
CloneCalls == SelectSeq(calls, LAMBDA c : c.step = "clone")

\* C10: the k-th attempt is for the name repo_<k>; the create call, the clone
\* URL and any reported URL carry that name and the configured owner, and
\* the document written for the attempt embeds that name and that owner and
\* no other name or owner.
C10_NameAndOwner ==
    /\ \A k \in 1..Len(CreateCalls) :
          CreateCalls[k].command[4] = Get(USERNAME) \o <<"/">> \o NameOf(k - 1)
    /\ \A k \in 1..Len(CloneCalls) :
          Contains(CloneCalls[k].command[3],
                   <<"@github.com/">> \o Get(USERNAME) \o <<"/">>
                       \o NameOf(CloneCalls[k].attempt) \o <<".git">>)
    /\ \A k \in 1..Len(log) :
          Contains(log[k], <<".github.io/">>) =>
              \E n \in Indices :
                  Contains(log[k], <<"https://">> \o Get(USERNAME) \o <<".github.io/">>
                                       \o NameOf(n))
    /\ \A node \in fs :
          node.kind = "file" =>
              /\ Contains(node.content, NameOf(Len(CreateCalls) - 1))
              /\ Contains(node.content, Get(USERNAME))
              /\ \A m \in Indices \ {Len(CreateCalls) - 1} :
                    ~Contains(node.content, NameOf(m))
              /\ \A u \in UserNames \ {USERNAME} : ~Contains(node.content, Get(u))

\* C10 witness: index.html of the second repository is on disk, owner bob.
C10_Witness ==
    /\ USERNAME = Some(<<"bob">>)
    /\ i = 1
    /\ \E node \in fs : node.kind = "file" /\ Contains(node.content, <<"repo_", "1">>)

\* every call made so far found no executable
AllNotFound ==
    /\ running = None
    /\ Len(calls) = Len(returns)
    /\ \A k \in 1..Len(returns) : returns[k].outcome.kind = "notfound"

FailureLinesFor(n) ==
    {l \in 1..Len(log) :
        /\ Contains(log[l], <<"--- FAILURE: Failed to ">>)
        /\ Contains(log[l], NameOf(n))}

\* the steps whose failure create_and_setup_repo reports itself, with the
\* words of the report
StepPhrase ==
    [create |-> "create repository ", clone |-> "clone ",
     push |-> "push to ", pages |-> "enable GitHub Pages for "]

\* C12 as stated: every failed step leaves a failure line of the Provisioner
\* for its repository in the log.
C12_EveryAbortReported ==
    \A k \in 1..Len(returns) :
        ~returns[k].ret => FailureLinesFor(returns[k].inv.attempt) # {}

\* C12 amended: a failed create, clone, push or static-hosting call leaves
\* exactly one failure line of the Provisioner, which names that step and the
\* repository; a failed user.name, user.email, add or commit call ends the
\* sequence without any failure line of the Provisioner.
C12_ReportedSteps ==
    \A k \in 1..Len(returns) :
        LET step == returns[k].inv.step
            n == returns[k].inv.attempt
        IN  ~returns[k].ret =>
              IF step \in DOMAIN StepPhrase
              THEN /\ Cardinality(FailureLinesFor(n)) = 1
                   /\ \A l \in FailureLinesFor(n) : Contains(log[l], <<StepPhrase[step]>>)
              ELSE FailureLinesFor(n) = {}

\* C12 witness: the commit of repo_0 failed silently and the push of repo_1
\* failed with its failure line.
C12_Witness ==
    /\ \E k \in 1..Len(returns) :
          /\ ~returns[k].ret
          /\ returns[k].inv.step = "commit"
          /\ returns[k].inv.attempt = 0
    /\ \E k \in 1..Len(returns) :
          /\ ~returns[k].ret
          /\ returns[k].inv.step = "push"
          /\ returns[k].inv.attempt = 1
    /\ FailureLinesFor(0) = {}
    /\ FailureLinesFor(1) # {}

\* the leading words of the eight external commands, in program order
CommandWords ==
    << << <<"gh">>, <<"repo">>, <<"create">> >>,
       << <<"git">>, <<"clone">> >>,
       << <<"git">>, <<"config">>, <<"user.name">> >>,
       << <<"git">>, <<"config">>, <<"user.email">> >>,
       << <<"git">>, <<"add">> >>,
       << <<"git">>, <<"commit">> >>,
       << <<"git">>, <<"push">> >>,
       << <<"gh">>, <<"api">> >> >>

\* C13: the calls of one attempt are the first so-many of the eight commands,
\* each at most once and in program order (so at most eight, none of them a
\* repeat or a compensating command), and the calls stop with the first one
\* that returns False.
C13_NoRetryNoRollback ==
    \A n \in Indices :
        LET cs == CallsOf(n)
            rs == ReturnsOf(n)
        IN  /\ Len(cs) <= Len(CommandWords)
            /\ \A j \in 1..Len(cs) :
                  IsPrefix(CommandWords[j], cs[j].command)
            /\ \A j \in 1..Len(rs) :
                  /\ rs[j].inv = cs[j]
                  /\ ~rs[j].ret => Len(cs) = j

\* C13 witness: the push of repo_0 failed as its seventh call, and repo_1 is
\* under way with its own calls.
C13_Witness ==
    /\ Len(CallsOf(0)) = 7
    /\ Len(ReturnsOf(0)) = 7
    /\ ~ReturnsOf(0)[7].ret
    /\ Len(CallsOf(1)) >= 2

\* C14: an I/O error while writing index.html ends the whole process: the
\* clone of the current repository stays its last call, no later index is
\* started, nothing can run any more, and the temporary workspace is gone.
C14_WriteErrorIsFatal ==
    exc = Some("OSError") =>
        /\ pc = "crashed"
        /\ running = None
        /\ ~ENABLED Next
        /\ calls # <<>>
        /\ calls[Len(calls)].step = "clone"
        /\ calls[Len(calls)].attempt = i
        /\ \A k \in 1..Len(calls) : calls[k].attempt <= i
        /\ \A l \in 1..Len(log) :
              /\ log[l] # <<"Automation complete.">>
              /\ \A m \in Indices :
                    (m > i /\ Contains(log[l], <<"--- Starting process for ">>))
                        => ~Contains(log[l], NameOf(m))
        /\ fs = {}
        /\ tmpdir = None

\* C14 witness: the write failed for repo_0, with repo_1 still to come.
C14_Witness ==
    /\ exc = Some("OSError")
    /\ i = 0
    /\ i + 1 < NUM_REPOS
    /\ Len(calls) = 2

\* the temporary workspaces that exist
Workspaces == {node \in fs : node.kind = "dir" /\ node.path \in TmpNames}

\* C15: at most one temporary workspace exists at any time; it exists while
\* a clone, config, add, commit or push call is in flight, and none exists
\* while a create or static-hosting API call is in flight, nor between two
\* attempts (at the loop head, before the run starts and after it ends).
C15_WorkspaceScope ==
    /\ Cardinality(Workspaces) <= 1
    /\ \A node \in fs : \E w \in Workspaces : IsPrefix(w.path, node.path)
    /\ running # None =>
          /\ Get(running).step \in WithSteps =>
                /\ Cardinality(Workspaces) = 1
                /\ tmpdir # None
                /\ Dir(Get(tmpdir)) \in Workspaces
          /\ Get(running).step \in {"create", "pages"} => fs = {}
    /\ pc \in {"main", "loop", "create", "pages", "done", "crashed"} => fs = {}

\* C15 witness: the push of repo_1 is in flight and its workspace holds the
\* clone and index.html.
C15_Witness ==
    /\ running # None
    /\ Get(running).step = "push"
    /\ Get(running).attempt = 1
    /\ Cardinality(Workspaces) = 1
    /\ \E node \in fs : node.kind = "file"

\* the deployment URL of repo_<n> is in the log
UrlReported(n) ==
    \E l \in 1..Len(log) : Contains(log[l], <<".github.io/">> \o NameOf(n))

\* in attempt n all eight commands were run, in program order, and each
\* returned True
FullSuccess(n) ==
    LET rs == ReturnsOf(n)
    IN  /\ Len(rs) = Len(CommandWords)
        /\ \A j \in 1..Len(rs) :
              rs[j].ret /\ IsPrefix(CommandWords[j], rs[j].inv.command)

\* C16: no deployment URL is in the log for a repository unless all eight
\* calls of its attempt, the static-hosting call last, have returned True;
\* in particular none for a repository whose static-hosting call failed or
\* was never issued.
C16_UrlOnlyAfterFullSuccess ==
    \A n \in Indices : ~FullSuccess(n) => ~UrlReported(n)

\* C16 witness: every call of repo_0 up to the push returned True, the
\* static-hosting call was never issued, the attempt is over, and no URL is
\* in the log.
C16_Witness ==
    /\ Concluded(0)
    /\ Len(ReturnsOf(0)) = 7
    /\ AllSucceeded(0)
    /\ \A k \in 1..Len(calls) : calls[k].step # "pages"
    /\ ~UrlReported(0)

====
